---------------------------- MODULE Spec2Model ----------------------------
(***************************************************************************)
(* A model of the two Streamlit programs of the repository:                *)
(*   src/app.py   the local Knowledge Vault (keyword classifier, static    *)
(*                notes, sympy helpers, CSV history);                      *)
(*   src/main.py  the remote variant (keyword classifier, Perplexity       *)
(*                completion call, Notion page creation).                  *)
(*                                                                         *)
(* A Python str is a sequence of one-character strings, so that lower(),   *)
(* `in`, split() and slicing are computed and not assumed.  The two        *)
(* non-ASCII keywords of main.py are the single characters "U+222B" and    *)
(* "U+2211", and the backquote is "U+0060".  A Python value is a record    *)
(* [t, s, n]: t is its type, s its text when it is a str, n its number     *)
(* when it is an int or a float64 with an integral value.                  *)
(***************************************************************************)
EXTENDS Integers, Sequences, FiniteSets, TLC

VARIABLES
    query,      \* the argument of the function under call / the text area
    result,     \* what the last function call returned or raised
    file,       \* vault_history.csv on disk
    sess,       \* per browser session: where its script run stands in save_history
    appended,   \* history: the entries whose save_history call has completed
    clock,      \* datetime.now(), in seconds
    env,        \* the process environment and the optional sympy import
    ui,         \* main.py: what the last script run put on the page
    net         \* main.py: the HTTP requests sent so far

vars == <<query, result, file, sess, appended, clock, env, ui, net>>

-----------------------------------------------------------------------------
(* Python values *)

None == [t |-> "None", s |-> <<>>, n |-> 0]
Str(s) == [t |-> "str", s |-> s, n |-> 0]
PyInt(n) == [t |-> "int", s |-> <<>>, n |-> n]
PyFloat(n) == [t |-> "float", s |-> <<>>, n |-> n]
NaN == [t |-> "nan", s |-> <<>>, n |-> 0]

\* `query or ""`
OrEmpty(v) == IF v.t = "None" THEN <<>> ELSE v.s

-----------------------------------------------------------------------------
(* str operations *)

UPPERCASE == <<"A","B","C","D","E","F","G","H","I","J","K","L","M","N","O","P","Q","R","S","T","U","V","W","X","Y","Z">>
LOWERCASE == <<"a","b","c","d","e","f","g","h","i","j","k","l","m","n","o","p","q","r","s","t","u","v","w","x","y","z">>
WHITESPACE == {" ", "\n", "\t"}
DIGITS == <<"0","1","2","3","4","5","6","7","8","9">>

LowerChar(c) ==
    IF \E i \in 1..Len(UPPERCASE) : UPPERCASE[i] = c
    THEN LOWERCASE[CHOOSE i \in 1..Len(UPPERCASE) : UPPERCASE[i] = c]
    ELSE c

\* str.lower()
Lower(s) == [i \in 1..Len(s) |-> LowerChar(s[i])]

\* `w in q` for two strs: w occurs at some position of q
In(w, q) ==
    \E i \in 1..(Len(q) - Len(w) + 1) : SubSeq(q, i, i + Len(w) - 1) = w

\* any(w in q for w in words)
RECURSIVE AnyIn(_, _, _)
AnyIn(words, q, k) ==
    IF k > Len(words) THEN FALSE
    ELSE IF In(words[k], q) THEN TRUE
    ELSE AnyIn(words, q, k + 1)

\* str.split(): the maximal runs of non-whitespace, in order
RECURSIVE SplitWs(_, _, _)
SplitWs(s, i, cur) ==
    IF i > Len(s) THEN (IF cur = <<>> THEN <<>> ELSE <<cur>>)
    ELSE IF s[i] \in WHITESPACE
         THEN (IF cur = <<>> THEN <<>> ELSE <<cur>>) \o SplitWs(s, i + 1, <<>>)
         ELSE SplitWs(s, i + 1, Append(cur, s[i]))

Split(s) == SplitWs(s, 1, <<>>)

\* str.split(sep) for a one-character sep: every occurrence separates, and
\* empty parts are kept
RECURSIVE SplitSep(_, _, _, _)
SplitSep(s, sep, i, cur) ==
    IF i > Len(s) THEN <<cur>>
    ELSE IF s[i] = sep THEN <<cur>> \o SplitSep(s, sep, i + 1, <<>>)
    ELSE SplitSep(s, sep, i + 1, Append(cur, s[i]))

SplitOn(s, sep) == SplitSep(s, sep, 1, <<>>)

\* s[:n]
Take(s, n) == SubSeq(s, 1, IF Len(s) < n THEN Len(s) ELSE n)

\* str(n) for n >= 0
RECURSIVE Digits(_)
Digits(n) ==
    IF n < 10 THEN << DIGITS[n + 1] >>
    ELSE Digits(n \div 10) \o << DIGITS[(n % 10) + 1] >>

-----------------------------------------------------------------------------
(* src/app.py: static data *)

Note(topic, summary, sources) == [topic |-> topic, summary |-> summary, sources |-> sources]

HISTORY_NOTES == <<
    Note(<<"W","o","r","l","d"," ","W","a","r"," ","I"," ","C","a","u","s","e","s">>, <<"M","i","l","i","t","a","r","i","s","m",","," ","a","l","l","i","a","n","c","e","s",","," ","i","m","p","e","r","i","a","l","i","s","m",","," ","a","n","d"," ","n","a","t","i","o","n","a","l","i","s","m"," ","s","e","t"," ","t","h","e"," ","s","t","a","g","e"," ","f","o","r"," ","c","o","n","f","l","i","c","t","."," ","T","h","e"," ","a","s","s","a","s","s","i","n","a","t","i","o","n"," ","o","f"," ","A","r","c","h","d","u","k","e"," ","F","r","a","n","z"," ","F","e","r","d","i","n","a","n","d"," ","i","n"," ","1","9","1","4"," ","t","r","i","g","g","e","r","e","d"," ","t","h","e"," ","w","a","r",".">>, <<"E","n","c","y","c","l","o","p","e","d","i","a"," ","e","n","t","r","i","e","s"," ","a","n","d"," ","s","t","a","n","d","a","r","d"," ","h","i","s","t","o","r","y"," ","t","e","x","t","s",".">>),
    Note(<<"F","r","e","n","c","h"," ","R","e","v","o","l","u","t","i","o","n"," ","O","v","e","r","v","i","e","w">>, <<"E","c","o","n","o","m","i","c"," ","h","a","r","d","s","h","i","p",","," ","E","n","l","i","g","h","t","e","n","m","e","n","t"," ","i","d","e","a","s",","," ","a","n","d"," ","s","o","c","i","a","l"," ","i","n","e","q","u","a","l","i","t","y"," ","l","e","d"," ","t","o"," ","a"," ","r","e","v","o","l","u","t","i","o","n"," ","s","t","a","r","t","i","n","g"," ","i","n"," ","1","7","8","9",","," ","r","e","s","h","a","p","i","n","g"," ","F","r","e","n","c","h"," ","s","o","c","i","e","t","y"," ","a","n","d"," ","p","o","l","i","t","i","c","s",".">>, <<"P","r","i","m","a","r","y"," ","s","o","u","r","c","e","s"," ","a","n","d"," ","s","c","h","o","l","a","r","l","y"," ","s","u","m","m","a","r","i","e","s",".">>) >>

SCIENCE_NOTES == <<
    Note(<<"P","h","o","t","o","s","y","n","t","h","e","s","i","s">>, <<"P","l","a","n","t","s"," ","c","o","n","v","e","r","t"," ","l","i","g","h","t"," ","e","n","e","r","g","y"," ","i","n","t","o"," ","c","h","e","m","i","c","a","l"," ","e","n","e","r","g","y",","," ","p","r","o","d","u","c","i","n","g"," ","g","l","u","c","o","s","e"," ","a","n","d"," ","o","x","y","g","e","n"," ","f","r","o","m"," ","C","O","2"," ","a","n","d"," ","w","a","t","e","r"," ","i","n"," ","c","h","l","o","r","o","p","l","a","s","t","s",".">>, <<"I","n","t","r","o"," ","b","i","o","l","o","g","y"," ","r","e","f","e","r","e","n","c","e","s",".">>),
    Note(<<"S","t","a","t","e","s"," ","o","f"," ","M","a","t","t","e","r">>, <<"S","o","l","i","d",","," ","l","i","q","u","i","d",","," ","g","a","s",","," ","a","n","d"," ","p","l","a","s","m","a"," ","d","i","f","f","e","r"," ","b","y"," ","p","a","r","t","i","c","l","e"," ","a","r","r","a","n","g","e","m","e","n","t",","," ","e","n","e","r","g","y",","," ","a","n","d"," ","i","n","t","e","r","m","o","l","e","c","u","l","a","r"," ","f","o","r","c","e","s",".">>, <<"C","h","e","m","i","s","t","r","y"," ","t","e","x","t","b","o","o","k","s",".">>) >>

LITERATURE_NOTES == <<
    Note(<<"M","e","t","a","p","h","o","r">>, <<"A"," ","f","i","g","u","r","e"," ","o","f"," ","s","p","e","e","c","h"," ","t","h","a","t"," ","d","e","s","c","r","i","b","e","s"," ","a","n"," ","o","b","j","e","c","t"," ","o","r"," ","a","c","t","i","o","n"," ","a","s"," ","s","o","m","e","t","h","i","n","g"," ","e","l","s","e"," ","t","o"," ","i","l","l","u","m","i","n","a","t","e"," ","m","e","a","n","i","n","g",".">>, <<"L","i","t","e","r","a","r","y"," ","a","n","a","l","y","s","i","s"," ","g","u","i","d","e","s",".">>),
    Note(<<"C","h","a","r","a","c","t","e","r"," ","A","r","c">>, <<"T","h","e"," ","t","r","a","n","s","f","o","r","m","a","t","i","o","n"," ","o","r"," ","i","n","n","e","r"," ","j","o","u","r","n","e","y"," ","o","f"," ","a"," ","c","h","a","r","a","c","t","e","r"," ","o","v","e","r"," ","t","h","e"," ","c","o","u","r","s","e"," ","o","f"," ","a"," ","s","t","o","r","y",".">>, <<"N","a","r","r","a","t","i","v","e"," ","t","h","e","o","r","y"," ","m","a","t","e","r","i","a","l","s",".">>) >>

GENERAL_NOTES == <<
    Note(<<"T","i","m","e"," ","M","a","n","a","g","e","m","e","n","t">>, <<"P","r","i","o","r","i","t","i","z","e"," ","t","a","s","k","s",","," ","u","s","e"," ","t","i","m","e"," ","b","l","o","c","k","i","n","g",","," ","a","n","d"," ","r","e","v","i","e","w"," ","d","a","i","l","y"," ","t","o"," ","m","a","i","n","t","a","i","n"," ","m","o","m","e","n","t","u","m",".">>, <<"P","r","o","d","u","c","t","i","v","i","t","y"," ","r","e","s","e","a","r","c","h",".">>),
    Note(<<"S","t","u","d","y"," ","S","t","r","a","t","e","g","i","e","s">>, <<"S","p","a","c","e","d"," ","r","e","p","e","t","i","t","i","o","n",","," ","a","c","t","i","v","e"," ","r","e","c","a","l","l",","," ","a","n","d"," ","i","n","t","e","r","l","e","a","v","i","n","g"," ","i","m","p","r","o","v","e"," ","l","o","n","g","-","t","e","r","m"," ","r","e","t","e","n","t","i","o","n",".">>, <<"L","e","a","r","n","i","n","g"," ","s","c","i","e","n","c","e",".">>) >>

\* the dict, in insertion order
SUBJECT_KEYWORDS == <<
    [subject |-> "Math", words |-> << <<"i","n","t","e","g","r","a","l">>, <<"d","e","r","i","v","a","t","i","v","e">>, <<"e","q","u","a","t","i","o","n">>, <<"s","o","l","v","e">>, <<"l","i","m","i","t">>, <<"f","a","c","t","o","r">>, <<"m","a","t","r","i","x">>, <<"a","l","g","e","b","r","a">>, <<"c","a","l","c","u","l","u","s">> >>],
    [subject |-> "Science", words |-> << <<"e","x","p","e","r","i","m","e","n","t">>, <<"h","y","p","o","t","h","e","s","i","s">>, <<"r","e","a","c","t","i","o","n">>, <<"p","h","o","t","o","s","y","n","t","h","e","s","i","s">>, <<"b","i","o","l","o","g","y">>, <<"c","h","e","m","i","s","t","r","y">>, <<"p","h","y","s","i","c","s">>, <<"e","c","o","s","y","s","t","e","m">> >>],
    [subject |-> "History", words |-> << <<"t","i","m","e","l","i","n","e">>, <<"r","e","v","o","l","u","t","i","o","n">>, <<"w","o","r","l","d"," ","w","a","r">>, <<"c","a","u","s","e","s">>, <<"h","i","s","t","o","r","y">>, <<"c","i","v","i","l","i","z","a","t","i","o","n">>, <<"e","r","a">>, <<"e","m","p","i","r","e">> >>],
    [subject |-> "Literature", words |-> << <<"t","h","e","m","e">>, <<"c","h","a","r","a","c","t","e","r">>, <<"m","e","t","a","p","h","o","r">>, <<"p","o","e","m">>, <<"n","o","v","e","l">>, <<"l","i","t","e","r","a","t","u","r","e">>, <<"a","n","a","l","y","s","i","s">>, <<"s","y","m","b","o","l","i","s","m">> >>] >>

-----------------------------------------------------------------------------
(* src/app.py: detect_subject *)

\* the for loop over SUBJECT_KEYWORDS.items(), from entry k on
RECURSIVE FirstSubject(_, _, _)
FirstSubject(table, q, k) ==
    IF k > Len(table) THEN "General"
    ELSE IF AnyIn(table[k].words, q, 1) THEN table[k].subject
    ELSE FirstSubject(table, q, k + 1)

\* a variant that matches the query as typed, without lower()
detect_subject_cased(q) == FirstSubject(SUBJECT_KEYWORDS, OrEmpty(q), 1)

detect_subject(q) == FirstSubject(SUBJECT_KEYWORDS, Lower(OrEmpty(q)), 1)

-----------------------------------------------------------------------------
(* src/app.py: search_local_notes *)

MATH_FALLBACK == Note(<<"M","a","t","h">>, <<"U","s","e"," ","t","h","e"," ","m","a","t","h"," ","t","o","o","l","s"," ","t","o"," ","c","o","m","p","u","t","e"," ","s","o","l","u","t","i","o","n","s"," ","o","r"," ","d","e","r","i","v","a","t","i","v","e","s",".">>, <<"L","o","c","a","l"," ","c","o","m","p","u","t","a","t","i","o","n",".">>)

\* notes_map.get(subject, GENERAL_NOTES)
notes_map(subject) ==
    CASE subject = "History" -> HISTORY_NOTES
      [] subject = "Science" -> SCIENCE_NOTES
      [] subject = "Literature" -> LITERATURE_NOTES
      [] subject = "General" -> GENERAL_NOTES
      [] subject = "Math" -> <<>>
      [] OTHER -> GENERAL_NOTES

\* f"{item['topic']} {item['summary']}".lower()
Blob(item) == Lower(item.topic \o << " " >> \o item.summary)

\* the for loop over notes, from item k on; 0 when it ends without a return
RECURSIVE FirstNote(_, _, _)
FirstNote(notes, words, k) ==
    IF k > Len(notes) THEN 0
    ELSE IF \E j \in 1..Len(words) : In(words[j], Blob(notes[k])) THEN k
    ELSE FirstNote(notes, words, k + 1)

\* a variant whose fallback is the last note of the list
search_local_notes_last(subject, q) ==
    LET notes == notes_map(subject)
        k == FirstNote(notes, Split(Lower(OrEmpty(q))), 1)
    IN  IF k # 0 THEN notes[k]
        ELSE IF notes # <<>> THEN notes[Len(notes)]
        ELSE MATH_FALLBACK

search_local_notes(subject, q) ==
    LET notes == notes_map(subject)
        k == FirstNote(notes, Split(Lower(OrEmpty(q))), 1)
    IN  IF k # 0 THEN notes[k]
        ELSE IF notes # <<>> THEN notes[1]
        ELSE MATH_FALLBACK

-----------------------------------------------------------------------------
(* src/app.py: solve_equation and derivative *)
(* sympy is an external library.  What sympify, solve, simplify and diff   *)
(* do with a text is chosen by the caller of these operators: sym is "ok"  *)
(* when every sympy call of the function returns and the name of the       *)
(* exception otherwise, and the text sympy prints is the one character     *)
(* "<sympy>".                                                              *)

SYMPY_TEXT == << "<sympy>" >>

\* the outcomes sympy can have on the texts handed to sympify: the empty
\* text is never an expression
SympyOutcomes(texts) ==
    IF \E i \in 1..Len(texts) : texts[i] = <<>> THEN {"SympifyError"}
    ELSE {"ok", "SympifyError"}

Solved(summary, deep, left, right, err) ==
    [summary |-> summary, deep_dive |-> deep, left |-> left, right |-> right, error |-> err]

COULD_NOT_PARSE(err, msg) ==
    Solved(<<"C","o","u","l","d"," ","n","o","t"," ","p","a","r","s","e"," ","e","q","u","a","t","i","o","n">>,
           <<"E","n","s","u","r","e"," ","a"," ","v","a","l","i","d"," ","a","l","g","e","b","r","a","i","c"," ","e","x","p","r","e","s","s","i","o","n"," ","(","e",".","g",".",","," ","'","2","*","x","+","3","=","1","1","'",")","."," ","E","r","r","o","r",":"," ">> \o msg,
           <<>>, <<>>, err)

\* the texts solve_equation hands to sympify
SolveTexts(expression) ==
    IF expression.t = "None" THEN <<>>
    ELSE IF In(<< "=" >>, expression.s)
         THEN (IF Len(SplitOn(expression.s, "=")) = 2 THEN SplitOn(expression.s, "=") ELSE <<>>)
         ELSE << expression.s >>

\* sp: whether `import sympy` succeeded
solve_equation(expression, sp, sym) ==
    IF ~sp THEN
        Solved(<<"M","a","t","h"," ","s","o","l","v","e","r"," ","u","n","a","v","a","i","l","a","b","l","e">>,
               <<"I","n","s","t","a","l","l"," ","s","y","m","p","y"," ","t","o"," ","e","n","a","b","l","e"," ","s","o","l","v","i","n","g",":"," ","U+0060","p","i","p"," ","i","n","s","t","a","l","l"," ","s","y","m","p","y","U+0060","."," ","T","h","e"," ","a","p","p"," ","a","v","o","i","d","s"," ","e","x","t","e","r","n","a","l"," ","A","P","I","s"," ","a","n","d"," ","u","s","e","s"," ","l","o","c","a","l"," ","c","o","m","p","u","t","a","t","i","o","n",".">>,
               <<>>, <<>>, "none")
    ELSE IF expression.t = "None" THEN
        \* `"=" in None` raises inside the try
        COULD_NOT_PARSE("TypeError", <<"a","r","g","u","m","e","n","t"," ","o","f"," ","t","y","p","e"," ","'","N","o","n","e","T","y","p","e","'"," ","i","s"," ","n","o","t"," ","i","t","e","r","a","b","l","e">>)
    ELSE IF In(<< "=" >>, expression.s) THEN
        LET parts == SplitOn(expression.s, "=") IN
        IF Len(parts) > 2 THEN
            \* left, right = <three parts or more>
            COULD_NOT_PARSE("ValueError", <<"t","o","o"," ","m","a","n","y"," ","v","a","l","u","e","s"," ","t","o"," ","u","n","p","a","c","k"," ","(","e","x","p","e","c","t","e","d"," ","2",")">>)
        ELSE IF sym # "ok" THEN COULD_NOT_PARSE(sym, SYMPY_TEXT)
        ELSE Solved(<<"S","o","l","u","t","i","o","n",":"," ","x"," ","="," ">> \o SYMPY_TEXT,
                    <<"S","i","m","p","l","i","f","i","e","d"," ","e","q","u","a","t","i","o","n",":"," ">> \o SYMPY_TEXT \o <<" ","="," ","0","\n","S","y","m","b","o","l","i","c"," ","s","o","l","v","e"," ","s","t","e","p","s"," ","u","s","e"," ","s","y","m","p","y","'","s"," ","a","l","g","e","b","r","a","i","c"," ","m","e","t","h","o","d","s",".">>,
                    parts[1], parts[2], "none")
    ELSE IF sym # "ok" THEN COULD_NOT_PARSE(sym, SYMPY_TEXT)
    ELSE Solved(<<"S","i","m","p","l","i","f","i","e","d",":"," ">> \o SYMPY_TEXT,
                <<"P","r","o","v","i","d","e"," ","a","n"," ","e","q","u","a","t","i","o","n"," ","w","i","t","h"," ","'","=","'"," ","t","o"," ","s","o","l","v","e"," ","f","o","r"," ","x",","," ","e",".","g",".",","," ","'","2","*","x","+","3","=","1","1","'",".">>,
                <<>>, <<>>, "none")

derivative(expression, sp, sym) ==
    IF ~sp THEN
        Solved(<<"D","e","r","i","v","a","t","i","v","e"," ","u","n","a","v","a","i","l","a","b","l","e">>,
               <<"I","n","s","t","a","l","l"," ","s","y","m","p","y"," ","t","o"," ","e","n","a","b","l","e"," ","d","e","r","i","v","a","t","i","v","e","s",":"," ","U+0060","p","i","p"," ","i","n","s","t","a","l","l"," ","s","y","m","p","y","U+0060",".">>,
               <<>>, <<>>, "none")
    ELSE IF sym # "ok" THEN
        Solved(<<"C","o","u","l","d"," ","n","o","t"," ","c","o","m","p","u","t","e"," ","d","e","r","i","v","a","t","i","v","e">>,
               <<"C","h","e","c","k"," ","e","x","p","r","e","s","s","i","o","n"," ","v","a","l","i","d","i","t","y","."," ","E","r","r","o","r",":"," ">> \o SYMPY_TEXT, <<>>, <<>>, sym)
    ELSE Solved(<<"D","e","r","i","v","a","t","i","v","e"," ","d","f","/","d","x",":"," ">> \o SYMPY_TEXT,
                <<"C","o","m","p","u","t","e","d"," ","u","s","i","n","g"," ","s","y","m","b","o","l","i","c"," ","d","i","f","f","e","r","e","n","t","i","a","t","i","o","n"," ","o","n"," ","f","(","x",")"," ","="," ">> \o SYMPY_TEXT \o <<".">>,
                <<>>, <<>>, "none")

-----------------------------------------------------------------------------
(* What a call returns: a value, or the exception it raises *)

Return(v) == [exc |-> "none", val |-> v]
Raise(e) == [exc |-> e, val |-> "none"]

-----------------------------------------------------------------------------
(* src/main.py: detect_subject *)

MAIN_KEYWORDS == <<
    [subject |-> "Math", words |-> << <<"i","n","t","e","g","r","a","l">>, <<"d","e","r","i","v","a","t","i","v","e">>, <<"e","q","u","a","t","i","o","n">>, <<"s","o","l","v","e">>, <<"U+222B">>, <<"U+2211">> >>],
    [subject |-> "Science", words |-> << <<"e","x","p","e","r","i","m","e","n","t">>, <<"h","y","p","o","t","h","e","s","i","s">>, <<"r","e","a","c","t","i","o","n">>, <<"p","h","o","t","o","s","y","n","t","h","e","s","i","s">>, <<"b","i","o","l","o","g","y">>, <<"c","h","e","m","i","s","t","r","y">> >>],
    [subject |-> "History", words |-> << <<"t","i","m","e","l","i","n","e">>, <<"r","e","v","o","l","u","t","i","o","n">>, <<"w","o","r","l","d"," ","w","a","r">>, <<"c","a","u","s","e","s">>, <<"h","i","s","t","o","r","y">> >>],
    [subject |-> "Literature", words |-> << <<"t","h","e","m","e">>, <<"c","h","a","r","a","c","t","e","r">>, <<"m","e","t","a","p","h","o","r">>, <<"p","o","e","m">>, <<"n","o","v","e","l">>, <<"l","i","t","e","r","a","t","u","r","e">>, <<"a","n","a","l","y","s","i","s">> >>] >>

\* the if / elif chain, one branch per entry of MAIN_KEYWORDS
main_detect_subject(q) ==
    IF q.t = "None" THEN Raise("AttributeError")    \* None has no lower()
    ELSE LET query_lower == Lower(q.s) IN
         IF AnyIn(MAIN_KEYWORDS[1].words, query_lower, 1) THEN Return("Math")
         ELSE IF AnyIn(MAIN_KEYWORDS[2].words, query_lower, 1) THEN Return("Science")
         ELSE IF AnyIn(MAIN_KEYWORDS[3].words, query_lower, 1) THEN Return("History")
         ELSE IF AnyIn(MAIN_KEYWORDS[4].words, query_lower, 1) THEN Return("Literature")
         ELSE Return("General")

-----------------------------------------------------------------------------
(* src/main.py: the two HTTP adapters *)
(* requests.post either returns a response or raises (ConnectionError,     *)
(* Timeout, ...).  A response is [kind, status, text, json, content]: text *)
(* is the body as sent, json says what response.json() makes of it         *)
(* ("completion": an object with choices[0].message.content; "empty": {};  *)
(* "other": an object without choices; "invalid": not JSON), content is    *)
(* that message content.                                                   *)

SUMMARY_CHARS == 200
TITLE_CHARS == 50

\* f"{v}" for a str or None
Format(v) == IF v.t = "None" THEN <<"N","o","n","e">> ELSE v.s

NoResponse == [kind |-> "none", status |-> 0, text |-> <<>>, json |-> "none", content |-> <<>>]
Response(status, text, json, content) ==
    [kind |-> "response", status |-> status, text |-> text, json |-> json, content |-> content]
ConnectionError == [kind |-> "ConnectionError", status |-> 0, text |-> <<>>, json |-> "none", content |-> <<>>]

JsonNone == [json |-> "None", content |-> <<>>]

\* a variant that raises on an error status (response.raise_for_status())
query_perplexity_raising(prompt, api_key, response) ==
    LET request == [url |-> "https://api.perplexity.ai/chat/completions",
                    Authorization |-> <<"B","e","a","r","e","r"," ">> \o Format(api_key),
                    text |-> prompt]
    IN  IF response.kind = "ConnectionError"
        THEN [request |-> request, errors |-> <<>>, out |-> Raise("ConnectionError")]
        ELSE IF response.status # 200
        THEN [request |-> request, errors |-> <<>>, out |-> Raise("HTTPError")]
        ELSE IF response.json = "invalid"
        THEN [request |-> request, errors |-> <<>>, out |-> Raise("JSONDecodeError")]
        ELSE [request |-> request, errors |-> <<>>,
              out |-> Return([json |-> response.json, content |-> response.content])]

\* query_perplexity(prompt): the request it sends, what it puts on the page
\* with st.error, and what it returns or raises
query_perplexity(prompt, api_key, response) ==
    LET request == [url |-> "https://api.perplexity.ai/chat/completions",
                    Authorization |-> <<"B","e","a","r","e","r"," ">> \o Format(api_key),
                    text |-> prompt]
    IN  IF response.kind = "ConnectionError"
        THEN [request |-> request, errors |-> <<>>, out |-> Raise("ConnectionError")]
        ELSE IF response.status = 200
        THEN IF response.json = "invalid"
             THEN [request |-> request, errors |-> <<>>, out |-> Raise("JSONDecodeError")]
             ELSE [request |-> request, errors |-> <<>>,
                   out |-> Return([json |-> response.json, content |-> response.content])]
        ELSE [request |-> request,
              errors |-> << <<"E","r","r","o","r",":"," ">> \o Digits(response.status), response.text >>,
              out |-> Return(JsonNone)]

\* save_to_notion(subject, title, summary, deep_dive, sources): the request
\* it sends and what it returns or raises
save_to_notion(title, api_key, response) ==
    LET request == [url |-> "https://api.notion.com/v1/pages",
                    Authorization |-> <<"B","e","a","r","e","r"," ">> \o Format(api_key),
                    text |-> title]
    IN  IF response.kind = "ConnectionError"
        THEN [request |-> request, out |-> Raise("ConnectionError")]
        ELSE [request |-> request, out |-> Return(response.status = 200)]

\* `if result:` for what query_perplexity returned
Truthy(v) == v.json \notin { "None", "empty" }

BlankPage ==
    [analysed |-> FALSE, subject |-> "", summary |-> <<>>, deep_dive |-> <<>>,
     visualization |-> <<>>, sources |-> <<>>, errors |-> <<>>,
     exception |-> "none", response |-> NoResponse,
     completion |-> Raise("not called")]

\* the page after the script run in which Analyze was pressed
AnalyzePage(q, api_key, response) ==
    LET subject == main_detect_subject(q).val
        call == query_perplexity(q.s, api_key, response)
        shown == [BlankPage EXCEPT !.subject = subject, !.errors = call.errors,
                                   !.response = response, !.completion = call.out]
    IN  IF call.out.exc # "none" THEN [shown EXCEPT !.exception = call.out.exc]
        ELSE IF Truthy(call.out.val) THEN
            IF call.out.val.json # "completion"
            THEN [shown EXCEPT !.exception = "KeyError"]
            ELSE [shown EXCEPT !.analysed = TRUE,
                               !.summary = Take(call.out.val.content, SUMMARY_CHARS),
                               !.deep_dive = call.out.val.content,
                               !.visualization = <<"V","i","s","u","a","l","i","z","a","t","i","o","n"," ","p","l","a","c","e","h","o","l","d","e","r"," ","(","a","t","t","a","c","h"," ","c","h","a","r","t","s"," ","l","a","t","e","r",")">>,
                               !.sources = <<"S","o","u","r","c","e","s"," ","p","l","a","c","e","h","o","l","d","e","r"," ","(","C","o","m","e","t"," ","m","a","y"," ","i","n","c","l","u","d","e"," ","c","i","t","a","t","i","o","n","s"," ","i","n"," ","r","e","s","p","o","n","s","e",")">>]
        ELSE [shown EXCEPT !.analysed = TRUE,
                           !.summary = <<"E","r","r","o","r"," ","r","e","t","r","i","e","v","i","n","g"," ","s","u","m","m","a","r","y",".">>,
                           !.deep_dive = <<"E","r","r","o","r"," ","r","e","t","r","i","e","v","i","n","g"," ","d","e","e","p"," ","d","i","v","e",".">>,
                           !.visualization = <<"E","r","r","o","r"," ","r","e","t","r","i","e","v","i","n","g"," ","v","i","s","u","a","l","i","z","a","t","i","o","n",".">>,
                           !.sources = <<"E","r","r","o","r"," ","r","e","t","r","i","e","v","i","n","g"," ","s","o","u","r","c","e","s",".">>]

-----------------------------------------------------------------------------
(* The functions called on their own: SpecCalls *)
(* Init draws the argument `query`; each action is one call of one         *)
(* function on it and records in `result` what the call returned.          *)

MaxFragments == 2

Fragments == { <<"S","o","l","v","e">>, <<" ">>, <<"x">>, <<"=">>, <<"1">>, <<"x","=","1">>, <<"e","r","a">>, <<"W","o","r","l","d"," ","W","a","r">>,
               <<"p","h","o","t","o","s","y","n","t","h","e","s","i","s">>, <<"T","h","e">>, <<"t","h","e","m","e">>, <<"r","e","v","o","l","u","t","i","o","n">>, <<"U+222B">> }

RECURSIVE Texts(_)
Texts(n) ==
    IF n = 0 THEN { <<>> }
    ELSE Texts(n - 1) \cup { t \o f : t \in Texts(n - 1), f \in Fragments }

KeywordsOf(table) == UNION { { table[k].words[i] : i \in 1..Len(table[k].words) } : k \in 1..Len(table) }

Queries == { None } \cup { Str(t) : t \in Texts(MaxFragments) \cup KeywordsOf(SUBJECT_KEYWORDS) \cup KeywordsOf(MAIN_KEYWORDS) }

\* the subjects search_local_notes is called with: the five categories and
\* one that is none of them
Subjects == { "Math", "Science", "History", "Literature", "General", "Art" }

NoArg == [subject |-> "", sp |-> FALSE, sym |-> "", response |-> NoResponse]
NoResult == [fn |-> "none", arg |-> NoArg, out |-> Return(""), sent |-> <<>>]

LogIdle ==
    /\ file = [kind |-> "missing", rows |-> <<>>]
    /\ sess = <<>>
    /\ appended = <<>>
    /\ clock = 0

MainIdle ==
    /\ env = [sp |-> FALSE, PERPLEXITY_API_KEY |-> None, NOTION_API_KEY |-> None]
    /\ ui = BlankPage
    /\ net = <<>>

InitCalls ==
    /\ query \in Queries
    /\ result = NoResult
    /\ LogIdle
    /\ MainIdle

Called(fn, arg, out) ==
    /\ result.fn = "none"
    /\ result' = [fn |-> fn, arg |-> arg, out |-> out, sent |-> <<>>]
    /\ UNCHANGED <<query, file, sess, appended, clock, env, ui, net>>

CallDetectSubject ==
    Called("app.detect_subject", NoArg, Return(detect_subject(query)))

CallMainDetectSubject ==
    Called("main.detect_subject", NoArg, main_detect_subject(query))

CallSearchLocalNotes ==
    \E subject \in Subjects :
        Called("app.search_local_notes", [NoArg EXCEPT !.subject = subject],
               Return(search_local_notes(subject, query)))

CallSolveEquation ==
    \E sp \in BOOLEAN : \E sym \in SympyOutcomes(SolveTexts(query)) :
        Called("app.solve_equation", [NoArg EXCEPT !.sp = sp, !.sym = sym],
               Return(solve_equation(query, sp, sym)))

NextCalls ==
    \/ CallDetectSubject
    \/ CallMainDetectSubject
    \/ CallSearchLocalNotes
    \/ CallSolveEquation

SpecCalls == InitCalls /\ [][NextCalls]_vars

-----------------------------------------------------------------------------
(* Properties of the functions, checked under SpecCalls *)

\* w is a substring of q: q = prefix \o w \o suffix
Occurs(w, q) ==
    \E i \in 0..Len(q) :
        /\ i + Len(w) <= Len(q)
        /\ \A j \in 1..Len(w) : q[i + j] = w[j]

HasKeyword(table, k, q) ==
    \E i \in 1..Len(table[k].words) : Occurs(table[k].words[i], q)

Priority == << "Math", "Science", "History", "Literature" >>

\* subject is the first category of Priority with a keyword in the
\* lower-cased text, and General exactly when no category has one
FirstCategoryWins(table, text, subject) ==
    LET q == Lower(text) IN
    /\ subject \in { Priority[k] : k \in 1..Len(Priority) } \cup { "General" }
    /\ \A k \in 1..Len(Priority) :
           subject = Priority[k] <=>
               /\ table[k].subject = Priority[k]
               /\ HasKeyword(table, k, q)
               /\ \A j \in 1..(k - 1) : ~HasKeyword(table, j, q)
    /\ subject = "General" <=> \A k \in 1..Len(Priority) : ~HasKeyword(table, k, q)

\* C1: for every str query, detect_subject (app.py and main.py) returns the
\* first category, in the order Math, Science, History, Literature, with a
\* keyword occurring in the lower-cased query, and General exactly when no
\* keyword of any category occurs in it.
C1_FirstCategoryWins ==
    /\ (result.fn = "app.detect_subject" /\ query.t = "str") =>
           /\ result.out.exc = "none"
           /\ FirstCategoryWins(SUBJECT_KEYWORDS, query.s, result.out.val)
    /\ (result.fn = "main.detect_subject" /\ query.t = "str") =>
           /\ result.out.exc = "none"
           /\ FirstCategoryWins(MAIN_KEYWORDS, query.s, result.out.val)

\* a classified query that holds keywords of two categories, one of them
\* typed in upper case, and is given the earlier category
C1_Witness ==
    /\ result.fn \in { "app.detect_subject", "main.detect_subject" }
    /\ query.t = "str"
    /\ query.s # Lower(query.s)
    /\ \E j \in 1..Len(Priority) : \E k \in (j + 1)..Len(Priority) :
           /\ HasKeyword(MAIN_KEYWORDS, j, Lower(query.s))
           /\ HasKeyword(MAIN_KEYWORDS, k, Lower(query.s))
           /\ ~HasKeyword(MAIN_KEYWORDS, j, query.s)
           /\ result.out = Return(Priority[j])

\* C2: the classifier returns General, and raises nothing, for the empty
\* string and for None, in app.py and in main.py.
C2_EmptyAndNoneAreGeneral ==
    (/\ result.fn \in { "app.detect_subject", "main.detect_subject" }
     /\ query \in { None, Str(<<>>) })
        => result.out = Return("General")

\* some whitespace-separated token of the lower-cased text is a substring
\* of the lower-cased topic and summary of the note
TokenMatches(item, text) ==
    LET q == Lower(text)
        blob == Lower(item.topic) \o << " " >> \o Lower(item.summary)
    IN  \E i \in 1..Len(q) : \E j \in i..Len(q) :
            /\ \A k \in i..j : q[k] \notin WHITESPACE
            /\ i = 1 \/ q[i - 1] \in WHITESPACE
            /\ j = Len(q) \/ q[j + 1] \in WHITESPACE
            /\ Occurs(SubSeq(q, i, j), blob)

\* the list of a category; an unknown category has the General list
CategoryNotes(subject) ==
    IF subject = "Math" THEN <<>>
    ELSE IF subject = "Science" THEN SCIENCE_NOTES
    ELSE IF subject = "History" THEN HISTORY_NOTES
    ELSE IF subject = "Literature" THEN LITERATURE_NOTES
    ELSE GENERAL_NOTES

\* C4: search_local_notes returns, for every category and every query (None
\* and "" included), a note with topic, summary and sources: the first note
\* of the category's list that a token of the query matches, else the first
\* note of the list, else (Math, the empty list) the hardcoded fallback.
C4_LookupIsTotal ==
    result.fn = "app.search_local_notes" =>
        LET notes == CategoryNotes(result.arg.subject)
            text == IF query = None THEN <<>> ELSE query.s
            hits == { k \in 1..Len(notes) : TokenMatches(notes[k], text) }
        IN  /\ result.out.exc = "none"
            /\ DOMAIN result.out.val = { "topic", "summary", "sources" }
            /\ hits # {} =>
                   \E k \in hits :
                       /\ \A j \in hits : k <= j
                       /\ result.out.val = notes[k]
            /\ (hits = {} /\ notes # <<>>) => result.out.val = notes[1]
            /\ notes = <<>> =>
                   result.out.val = Note(<<"M","a","t","h">>, <<"U","s","e"," ","t","h","e"," ","m","a","t","h"," ","t","o","o","l","s"," ","t","o"," ","c","o","m","p","u","t","e"," ","s","o","l","u","t","i","o","n","s"," ","o","r"," ","d","e","r","i","v","a","t","i","v","e","s",".">>, <<"L","o","c","a","l"," ","c","o","m","p","u","t","a","t","i","o","n",".">>)

\* lookup(History, "revolution") skips the first History note and returns
\* the French Revolution note
C4_Witness ==
    /\ result.fn = "app.search_local_notes"
    /\ result.arg.subject = "History"
    /\ query = Str(<<"r","e","v","o","l","u","t","i","o","n">>)
    /\ ~TokenMatches(HISTORY_NOTES[1], query.s)
    /\ result.out.val.topic = <<"F","r","e","n","c","h"," ","R","e","v","o","l","u","t","i","o","n"," ","O","v","e","r","v","i","e","w">>

\* the position of the first "=" of s
FirstEquals(s) == CHOOSE i \in 1..Len(s) : s[i] = "=" /\ \A j \in 1..(i - 1) : s[j] # "="

\* C9: with sympy present, solve_equation splits an expression that holds at
\* least one "=" at the first one: no unpacking error is reported whatever
\* the number of "=", and the equation that is built has the text before the
\* first "=" as its left side and all the text after it as its right side.
C9_SplitAtFirstEquals ==
    (/\ result.fn = "app.solve_equation"
     /\ result.arg.sp
     /\ query.t = "str"
     /\ Occurs(<< "=" >>, query.s))
        => /\ result.out.val.error # "ValueError"
           /\ result.out.val.error = "none" =>
                  /\ result.out.val.left = SubSeq(query.s, 1, FirstEquals(query.s) - 1)
                  /\ result.out.val.right = SubSeq(query.s, FirstEquals(query.s) + 1, Len(query.s))

\* C10: every keyword of a classifier's table, taken as the whole query, is
\* classified into the category that lists it.
C10_KeywordsClassifyAsOwn ==
    /\ result.fn = "app.detect_subject" =>
           \A k \in 1..Len(SUBJECT_KEYWORDS) : \A i \in 1..Len(SUBJECT_KEYWORDS[k].words) :
               query = Str(SUBJECT_KEYWORDS[k].words[i])
                   => result.out = Return(SUBJECT_KEYWORDS[k].subject)
    /\ result.fn = "main.detect_subject" =>
           \A k \in 1..Len(MAIN_KEYWORDS) : \A i \in 1..Len(MAIN_KEYWORDS[k].words) :
               query = Str(MAIN_KEYWORDS[k].words[i])
                   => result.out = Return(MAIN_KEYWORDS[k].subject)

-----------------------------------------------------------------------------
(* src/app.py: the CSV history *)
(* vault_history.csv is held as its data rows, each a record of the six    *)
(* field texts (the header row and the quoting of the csv writer, which    *)
(* the parser undoes, are not spelled out).  What pandas does to a field   *)
(* is: read_csv infers one dtype per column, and to_csv prints each cell   *)
(* by its dtype.                                                           *)

COLUMNS == { "timestamp", "subject", "query", "summary", "deep_dive", "sources" }

\* field texts that read_csv takes for a missing value (its default
\* na_values, the ones common to every pandas version)
NA_VALUES == { <<>>, <<"N","A">>, <<"N","/","A">>, <<"N","a","N">>, <<"n","a","n">>, <<"N","U","L","L">>, <<"n","u","l","l">>, <<"n","/","a">>, <<"#","N","/","A">>, <<"<","N","A",">">> }

DigitValue(c) == (CHOOSE i \in 1..Len(DIGITS) : DIGITS[i] = c) - 1

IsDigit(c) == \E i \in 1..Len(DIGITS) : DIGITS[i] = c

\* an unsigned decimal integer
IsIntText(s) == s # <<>> /\ \A i \in 1..Len(s) : IsDigit(s[i])

\* an unsigned decimal with a fraction of zeros, the form to_csv prints an
\* integral float64 in
IsFloatText(s) ==
    \E d \in 2..(Len(s) - 1) :
        /\ s[d] = "."
        /\ IsIntText(SubSeq(s, 1, d - 1))
        /\ \A i \in (d + 1)..Len(s) : s[i] = "0"

RECURSIVE ParseInt(_)
ParseInt(s) ==
    IF s = <<>> THEN 0
    ELSE 10 * ParseInt(SubSeq(s, 1, Len(s) - 1)) + DigitValue(s[Len(s)])

ParseFloat(s) ==
    IF IsIntText(s) THEN ParseInt(s)
    ELSE ParseInt(SubSeq(s, 1, (CHOOSE d \in 1..Len(s) : s[d] = ".") - 1))

\* the dtype read_csv infers for a column from its field texts
ColumnDtype(texts) ==
    LET present == { i \in 1..Len(texts) : texts[i] \notin NA_VALUES } IN
    IF \A i \in present : IsIntText(texts[i])
    THEN (IF present = 1..Len(texts) THEN "int64" ELSE "float64")
    ELSE IF \A i \in present : IsIntText(texts[i]) \/ IsFloatText(texts[i])
    THEN "float64"
    ELSE "object"

\* the cell read_csv makes of a field of a column of that dtype
ParseCell(text, dtype) ==
    IF text \in NA_VALUES THEN NaN
    ELSE IF dtype = "int64" THEN PyInt(ParseInt(text))
    ELSE IF dtype = "float64" THEN PyFloat(ParseFloat(text))
    ELSE Str(text)

\* pd.read_csv(HISTORY_PATH) on the data rows
read_csv(rows) ==
    LET dtype == [c \in COLUMNS |-> ColumnDtype([i \in 1..Len(rows) |-> rows[i][c]])]
    IN  [i \in 1..Len(rows) |-> [c \in COLUMNS |-> ParseCell(rows[i][c], dtype[c])]]

\* the field to_csv prints for a cell
FormatCell(cell) ==
    IF cell.t = "str" THEN cell.s
    ELSE IF cell.t = "int" THEN Digits(cell.n)
    ELSE IF cell.t = "float" THEN Digits(cell.n) \o <<".","0">>
    ELSE <<>>

\* df.to_csv(HISTORY_PATH, index=False)
to_csv(df) ==
    [kind |-> "csv", rows |-> [i \in 1..Len(df) |-> [c \in COLUMNS |-> FormatCell(df[i][c])]]]

\* load_history: the file when it exists and parses, an empty frame
\* otherwise.  A file of zero bytes makes read_csv raise EmptyDataError.
load_history(f) ==
    IF f.kind = "csv" THEN read_csv(f.rows) ELSE <<>>

\* a variant that keeps only the new row
concat_new_only(df, entry) == << [c \in COLUMNS |-> Str(entry[c])] >>

\* pd.concat([df, pd.DataFrame([entry])], ignore_index=True)
concat(df, entry) == Append(df, [c \in COLUMNS |-> Str(entry[c])])

-----------------------------------------------------------------------------
(* src/app.py: the Analyze handler *)

SubjectText(subject) ==
    CASE subject = "Math" -> <<"M","a","t","h">>
      [] subject = "Science" -> <<"S","c","i","e","n","c","e">>
      [] subject = "History" -> <<"H","i","s","t","o","r","y">>
      [] subject = "Literature" -> <<"L","i","t","e","r","a","t","u","r","e">>
      [] OTHER -> <<"G","e","n","e","r","a","l">>

\* datetime.datetime.now().isoformat(timespec="seconds"), `now` being the
\* seconds since the first analysis of the day
Isoformat(now) ==
    <<"2","0","2","6","-","0","1","-","0","1","T","0","0",":","0","0",":">> \o (IF now < 10 THEN << "0" >> ELSE <<>>) \o Digits(now)

\* whether the handler calls derivative (and not solve_equation)
WantsDerivative(q) ==
    In(<<"d","e","r","i","v","a","t","i","v","e">>, Lower(OrEmpty(q))) \/ In(<<"d","/","d","x">>, Lower(OrEmpty(q)))

\* the texts the Math branch hands to sympify
MathTexts(q) == IF WantsDerivative(q) THEN << q.s >> ELSE SolveTexts(q)

\* the outputs the handler prepares: summary, deep_dive, visualization_note
\* and sources
Compose(q, use_math, sp, sym) ==
    LET subject == detect_subject(q) IN
    IF subject = "Math" /\ use_math THEN
        IF WantsDerivative(q) THEN
            [summary |-> derivative(q, sp, sym).summary,
             deep_dive |-> derivative(q, sp, sym).deep_dive,
             sources |-> <<"L","o","c","a","l"," ","s","y","m","b","o","l","i","c"," ","c","o","m","p","u","t","a","t","i","o","n"," ","(","s","y","m","p","y",")",".">>,
             visualization_note |-> <<"U","s","e"," ","t","h","e"," ","'","V","i","s","u","a","l","i","z","a","t","i","o","n","'"," ","t","a","b"," ","t","o"," ","p","l","o","t"," ","f","u","n","c","t","i","o","n","s"," ","(","m","a","n","u","a","l"," ","i","n","p","u","t",")",".">>]
        ELSE
            [summary |-> solve_equation(q, sp, sym).summary,
             deep_dive |-> solve_equation(q, sp, sym).deep_dive,
             sources |-> <<"L","o","c","a","l"," ","s","y","m","b","o","l","i","c"," ","c","o","m","p","u","t","a","t","i","o","n"," ","(","s","y","m","p","y",")",".">>,
             visualization_note |-> <<"P","r","o","v","i","d","e"," ","f","u","n","c","t","i","o","n"," ","f","o","r","m"," ","f","o","r"," ","p","l","o","t","t","i","n","g",","," ","e",".","g",".",","," ","'","s","i","n","(","x",")","'"," ","o","r"," ","'","x","*","*","2","'",".">>]
    ELSE
        LET note == search_local_notes(subject, q) IN
        [summary |-> note.summary,
         deep_dive |-> <<"T","o","p","i","c",":"," ">> \o note.topic \o <<"\n","\n","E","x","p","a","n","d","e","d"," ","p","o","i","n","t","s",":","\n","-"," ","K","e","y"," ","i","d","e","a","s"," ","s","u","m","m","a","r","i","z","e","d"," ","f","r","o","m"," ","l","o","c","a","l"," ","n","o","t","e","s",".","\n","-"," ","Y","o","u"," ","c","a","n"," ","r","e","f","i","n","e"," ","c","o","n","t","e","n","t"," ","b","y"," ","e","d","i","t","i","n","g"," ","d","a","t","a","/","*",".","c","s","v",".","\n","-"," ","T","h","i","s"," ","a","p","p"," ","a","v","o","i","d","s"," ","e","x","t","e","r","n","a","l"," ","c","a","l","l","s"," ","f","o","r"," ","r","e","l","i","a","b","i","l","i","t","y",".">>,
         sources |-> note.sources,
         visualization_note |-> <<"V","i","s","u","a","l","i","z","a","t","i","o","n"," ","s","u","g","g","e","s","t","i","o","n","s",":"," ","t","i","m","e","l","i","n","e","s",","," ","b","a","r"," ","c","h","a","r","t","s",","," ","c","o","n","c","e","p","t"," ","m","a","p","s",".">>]

\* the entry the handler saves
Entry(q, use_math, sp, sym, now) ==
    LET out == Compose(q, use_math, sp, sym) IN
    [timestamp |-> Isoformat(now),
     subject |-> SubjectText(detect_subject(q)),
     query |-> q.s,
     summary |-> out.summary,
     deep_dive |-> out.deep_dive,
     sources |-> out.sources]

-----------------------------------------------------------------------------
(* The history under several browser sessions: SpecLog *)
(* Streamlit runs the script of each session in its own thread, all in one *)
(* process and one working directory.  save_history reads the file         *)
(* (line 131) and later rewrites it (line 133); the script run of another  *)
(* session can do either in between.                                       *)

MaxAnalyses == 2

Sessions == { "s1", "s2" }

\* what the user of a session may have typed in its text area when pressing
\* Analyze
LogQueries == { Str(<<>>), Str(<<"0","0","7">>), Str(<<"e","r","a">>), Str(<<"s","o","l","v","e"," ","x","=","1">>) }

Idle == [pc |-> "idle", df |-> <<>>, entry |-> <<>>, behind |-> 0]

Started == Len(appended) + Cardinality({ s \in Sessions : sess[s].pc = "saving" })

InitLog ==
    /\ query = Str(<<>>)
    /\ result = NoResult
    /\ file \in { [kind |-> "missing", rows |-> <<>>], [kind |-> "empty", rows |-> <<>>] }
    /\ sess = [s \in Sessions |-> Idle]
    /\ appended = <<>>
    /\ clock = 0
    /\ env \in { [sp |-> b, PERPLEXITY_API_KEY |-> None, NOTION_API_KEY |-> None] : b \in BOOLEAN }
    /\ ui = BlankPage
    /\ net = <<>>

\* session s presses Analyze: the script runs down to save_history's
\* load_history()
Analyze(s) ==
    /\ sess[s].pc = "idle"
    /\ Started < MaxAnalyses
    /\ \E q \in LogQueries : \E use_math \in BOOLEAN :
       \E sym \in SympyOutcomes(MathTexts(q)) :
           sess' = [sess EXCEPT ![s] =
                  [pc |-> "saving",
                   df |-> load_history(file),
                   entry |-> Entry(q, use_math, env.sp, sym, clock),
                   behind |-> 0]]
    /\ clock' = clock + 1
    /\ UNCHANGED <<query, result, file, appended, env, ui, net>>

\* session s goes on: concat, to_csv, st.success
WriteHistory(s) ==
    /\ sess[s].pc = "saving"
    /\ file' = to_csv(concat(sess[s].df, sess[s].entry))
    /\ appended' = Append(appended,
           [sess |-> s, entry |-> sess[s].entry, behind |-> sess[s].behind,
            seen |-> [i \in 1..Len(sess[s].df) |-> FormatCell(sess[s].df[i].timestamp)]])
    /\ sess' = [t \in Sessions |->
           IF t = s THEN Idle
           ELSE IF sess[t].pc = "saving" THEN [sess[t] EXCEPT !.behind = @ + 1]
           ELSE sess[t]]
    /\ UNCHANGED <<query, result, clock, env, ui, net>>

NextLog == \E s \in Sessions : Analyze(s) \/ WriteHistory(s)

SpecLog == InitLog /\ [][NextLog]_vars

-----------------------------------------------------------------------------
(* src/main.py as a Streamlit program: SpecMain *)
(* Streamlit runs the script from the top on every interaction, and        *)
(* st.button returns True only in the run its own press starts.  The       *)
(* "Save to Knowledge Vault" button is created inside the Analyze branch:  *)
(* in the run its press starts, st.button("Analyze") is False, the branch  *)
(* is skipped and the page goes back to the title and the text area.       *)
(* save_to_notion is therefore also modelled under call on its own, with   *)
(* the arguments the handler of line 116 would give it.                    *)

MaxRequests == 2

MainQueries == { Str(<<>>), Str(<<"E","x","p","l","a","i","n"," ","p","h","o","t","o","s","y","n","t","h","e","s","i","s">>), Str(<<"T","H","E"," ","F","R","E","N","C","H"," ","R","E","V","O","L","U","T","I","O","N">>) }

Keys == { None, Str(<<"s","e","c","r","e","t">>) }

BODY == << "<body>" >>

AnswerTexts == { <<>>, <<"P","l","a","n","t","s"," ","c","o","n","v","e","r","t"," ","l","i","g","h","t",".">>, [i \in 1..(SUMMARY_CHARS + 1) |-> "a"] }

\* what the completion service may answer
CompletionResponses ==
    { Response(200, BODY, "completion", a) : a \in AnswerTexts }
        \cup { Response(200, BODY, j, <<>>) : j \in { "empty", "other", "invalid" } }
        \cup { Response(st, BODY, "other", <<>>) : st \in { 401, 429, 500 } }
        \cup { ConnectionError }

\* what the note service may answer
NotionResponses ==
    { Response(st, BODY, "other", <<>>) : st \in { 200, 400, 401, 500 } } \cup { ConnectionError }

InitMain ==
    /\ query = Str(<<>>)
    /\ result = NoResult
    /\ LogIdle
    /\ env \in { [sp |-> FALSE, PERPLEXITY_API_KEY |-> p, NOTION_API_KEY |-> n] : p \in Keys, n \in Keys }
    /\ ui = BlankPage
    /\ net = <<>>

\* the user edits the text area: a run with no button pressed
Type ==
    \E q \in MainQueries :
        /\ q # query
        /\ query' = q
        /\ ui' = BlankPage
        /\ UNCHANGED <<result, file, sess, appended, clock, env, net>>

\* the user presses Analyze: lines 83 to 113, and the Save button of
\* line 115 is drawn unpressed
MainAnalyze ==
    /\ Len(net) < MaxRequests
    /\ \E response \in CompletionResponses :
        /\ ui' = AnalyzePage(query, env.PERPLEXITY_API_KEY, response)
        /\ net' = Append(net, query_perplexity(query.s, env.PERPLEXITY_API_KEY, response).request)
    /\ UNCHANGED <<query, result, file, sess, appended, clock, env>>

\* the user presses Save to Knowledge Vault on a page that shows it
PressSave ==
    /\ ui.analysed
    /\ ui' = BlankPage
    /\ UNCHANGED <<query, result, file, sess, appended, clock, env, net>>

\* save_to_notion under call, for the analysis on the page
CallSaveToNotion ==
    /\ ui.analysed
    /\ Len(net) < MaxRequests
    /\ \E response \in NotionResponses :
        LET call == save_to_notion(Take(query.s, TITLE_CHARS), env.NOTION_API_KEY, response) IN
        /\ result' = [fn |-> "main.save_to_notion",
                      arg |-> [NoArg EXCEPT !.response = response],
                      out |-> call.out,
                      sent |-> << call.request >>]
        /\ net' = Append(net, call.request)
    /\ UNCHANGED <<query, file, sess, appended, clock, env, ui>>

NextMain ==
    \/ Type
    \/ MainAnalyze
    \/ PressSave
    \/ CallSaveToNotion

SpecMain == InitMain /\ [][NextMain]_vars

-----------------------------------------------------------------------------
(* Properties of the history, checked under SpecLog *)

Stamps(rows) == [i \in 1..Len(rows) |-> rows[i].timestamp]

SavedStamps == [i \in 1..Len(appended) |-> appended[i].entry.timestamp]

\* only session s1 has ever pressed Analyze
SingleSession ==
    /\ \A i \in 1..Len(appended) : appended[i].sess = "s1"
    /\ \A s \in Sessions \ { "s1" } : sess[s].pc = "idle"

\* C3: after any sequence of save_history calls of a single session, from a
\* missing or empty log, the file holds one row per call, in call order and
\* with the fields as they were appended (so no call changes a row that was
\* already there), and load_history reads exactly those records back.
C3_AppendOnlyRoundTrip ==
    SingleSession =>
        /\ Len(file.rows) = Len(appended)
        /\ \A i \in 1..Len(appended) : file.rows[i] = appended[i].entry
        /\ load_history(file) =
               [i \in 1..Len(appended) |-> [c \in COLUMNS |-> Str(appended[i].entry[c])]]

\* C8: save_history reads the whole log and rewrites it in full, without a
\* lock.  The last writer wins: the file is what that writer had read plus
\* its own record.  When no other session wrote between the read and the
\* write of any save, the log keeps every record, in order of saving; when
\* one did, the log lacks a record (a lost update).
C8_LostUpdateOnlyWhenInterleaved ==
    /\ appended # <<>> =>
           Stamps(file.rows) =
               Append(appended[Len(appended)].seen, appended[Len(appended)].entry.timestamp)
    /\ (\A i \in 1..Len(appended) : appended[i].behind = 0) =>
           Stamps(file.rows) = SavedStamps
    /\ (\E i \in 1..Len(appended) : appended[i].behind > 0) =>
           Len(file.rows) < Len(appended)

\* two sessions have saved, the second one wrote over a log it had read
\* before the first wrote, and the first record is gone
C8_Witness ==
    /\ Len(appended) = 2
    /\ appended[1].sess # appended[2].sess
    /\ appended[2].behind = 1
    /\ \A s \in Sessions : sess[s].pc = "idle"
    /\ Stamps(file.rows) = << appended[2].entry.timestamp >>

-----------------------------------------------------------------------------
(* Properties of main.py, checked under SpecMain *)

Success(response) == response.kind = "response" /\ response.status \in 200..299

\* C5: save_to_notion sends exactly one request per call, lets no exception
\* escape (a transport failure included), and returns true only on a success
\* response, false on everything else.
C5_SaveReturnsFalseOnEveryFailure ==
    result.fn = "main.save_to_notion" =>
        /\ Len(result.sent) = 1
        /\ result.out.exc = "none"
        /\ result.out.val => Success(result.arg.response)

StatusText(status) ==
    CASE status = 401 -> <<"4","0","1">>
      [] status = 429 -> <<"4","2","9">>
      [] status = 500 -> <<"5","0","0">>

\* C6: when the completion service answers with a status other than 200,
\* query_perplexity shows the status and the body, returns None and raises
\* nothing, and the Analyze handler shows the four fixed fallback strings.
C6_FailedCompletionFallsBack ==
    (ui.response.kind = "response" /\ ui.response.status # 200) =>
        /\ ui.exception = "none"
        /\ ui.completion.exc = "none"
        /\ ui.completion.val.json = "None"
        /\ ui.errors = << <<"E","r","r","o","r",":"," ">> \o StatusText(ui.response.status), ui.response.text >>
        /\ ui.analysed
        /\ ui.summary = <<"E","r","r","o","r"," ","r","e","t","r","i","e","v","i","n","g"," ","s","u","m","m","a","r","y",".">>
        /\ ui.deep_dive = <<"E","r","r","o","r"," ","r","e","t","r","i","e","v","i","n","g"," ","d","e","e","p"," ","d","i","v","e",".">>
        /\ ui.visualization = <<"E","r","r","o","r"," ","r","e","t","r","i","e","v","i","n","g"," ","v","i","s","u","a","l","i","z","a","t","i","o","n",".">>
        /\ ui.sources = <<"E","r","r","o","r"," ","r","e","t","r","i","e","v","i","n","g"," ","s","o","u","r","c","e","s",".">>

\* an analysis that the service answered with 500
C6_Witness ==
    /\ ui.response.kind = "response"
    /\ ui.response.status = 500
    /\ ui.analysed
    /\ ui.summary = <<"E","r","r","o","r"," ","r","e","t","r","i","e","v","i","n","g"," ","s","u","m","m","a","r","y",".">>
    /\ Len(net) = 1

\* C7: with PERPLEXITY_API_KEY absent from the environment, no completion
\* request is sent under the missing key, and a run in which Analyze was
\* pressed ends without an exception and with the condition shown.
C7_MissingKeyIsDetected ==
    env.PERPLEXITY_API_KEY = None =>
        /\ \A i \in 1..Len(net) :
               net[i].url = "https://api.perplexity.ai/chat/completions"
                   => net[i].Authorization # <<"B","e","a","r","e","r"," ","N","o","n","e">>
        /\ ui.response.kind # "none" =>
               /\ ui.exception = "none"
               /\ ui.errors # <<>>

=============================================================================
